---- MODULE Spec2Model ----
(***************************************************************************)
(* School regulations checker (chapter5): the storey resolver, the unit    *)
(* scale resolver, the area resolver and the three rule evaluators         *)
(* (classroom count, floors with classrooms, parking), as state machines.  *)
(*                                                                         *)
(* Numbers.  Areas are fixed point: thousandths of a square metre before   *)
(* rounding ("milli"), hundredths after round(a, 2) ("centi").  Unit       *)
(* scales are ten-thousandths.  Arithmetic is exact.                       *)
(***************************************************************************)
EXTENDS Integers, Sequences, FiniteSets, TLC

VARIABLES
    graph,      \* the spatial hierarchy the storey resolver climbs
    wpc,        \* _storey_of_space: position in the function
    st_,        \* _storey_of_space: the local st_
    seen,       \* _storey_of_space: the local seen
    result,     \* _storey_of_space: what the call produced
    dwalk,      \* outcome of the decomposition loop
    cwalk,      \* outcome of the get_container loop
    ifc,        \* the opened model the evaluators read
    widgets,    \* the values of the input widgets
    pc,         \* position of the evaluator run
    out,        \* what the evaluators rendered
    script,     \* the script the session runs
    up,         \* the file held by the sidebar uploader
    ifc_name,   \* st.session_state.ifc_name
    opened,     \* history: the files opened successfully, in order
    open_error, \* the run showed "IFC open error"
    reruns      \* script runs started so far

walkVars == <<graph, wpc, st_, seen, result, dwalk, cwalk>>
evalVars == <<ifc, widgets, pc, out>>
sessVars == <<script, up, ifc_name, opened, open_error, reruns>>
vars == <<graph, wpc, st_, seen, result, dwalk, cwalk, ifc, widgets, pc, out,
          script, up, ifc_name, opened, open_error, reruns>>

\* ------------------------------------------------------------------ bounds

\* hierarchy nodes above a space (storeys, buildings, sites, other spaces)
MaxNodes == 2

\* ------------------------------------------------------- the hierarchy graph

\* Python's None, and an access that raises instead of returning
None == 0
Raise == -1

Nodes == 1..MaxNodes

\* is_a("IfcBuildingStorey") on a node: True, False, or an exception
Kinds == {"storey", "other", "raises"}

\* A graph: Decomposes[n] is parents[0].RelatingObject of node n (None when
\* the node has no Decomposes relation); sparent is the same for the space;
\* container is what uel.get_container(space) returns.  Each read may raise.
Graphs ==
    [Decomposes : [Nodes -> Nodes \cup {None, Raise}],
     kind       : [Nodes -> Kinds],
     sparent    : Nodes \cup {None, Raise},
     container  : Nodes \cup {None, Raise}]

NoGraph ==
    [Decomposes |-> [n \in Nodes |-> None], kind |-> [n \in Nodes |-> "other"],
     sparent |-> None, container |-> None]

\* try: if st_.is_a("IfcBuildingStorey"): return st_ / except Exception: pass
IsStorey(g, n) == g.kind[n] = "storey"

\* the loop condition with the visited-set test left out
LoopRuns_NoSeen(s, sn) == s # None

\* while st_ and id(st_) not in seen
LoopRuns(s, sn) == s # None /\ s \notin sn

\* one while loop of _storey_of_space run to its end from st_ = s with
\* seen = sn: the storey returned, None when the loop exits, Raise when a
\* read of Decomposes fails
RECURSIVE Climb(_, _, _)
Climb(g, s, sn) ==
    IF ~LoopRuns(s, sn) THEN None
    ELSE IF IsStorey(g, s) THEN s
    ELSE IF g.Decomposes[s] = Raise THEN Raise
    ELSE Climb(g, g.Decomposes[s], sn \cup {s})

\* _storey_of_space(space) as one call: the storey, None, or Raise when an
\* exception leaves the function (only the first loop lets one out)
StoreyOfSpace(g) ==
    IF g.sparent = Raise THEN Raise
    ELSE IF g.sparent # None /\ Climb(g, g.sparent, {}) # None
    THEN Climb(g, g.sparent, {})
    ELSE IF g.container = Raise THEN None
    ELSE IF Climb(g, g.container, {}) = Raise THEN None
    ELSE Climb(g, g.container, {})

\* ------------------------------------------- _storey_of_space, step by step

\* decomp = getattr(space, "Decomposes", None); if decomp: st_ = ...; seen = set()
WalkStart ==
    /\ wpc = "start"
    /\ IF graph.sparent = Raise
         THEN /\ wpc' = "done"
              /\ result' = Raise
              /\ dwalk' = "raised"
              /\ UNCHANGED <<st_, seen>>
         ELSE IF graph.sparent # None
         THEN /\ wpc' = "decomp"
              /\ st_' = graph.sparent
              /\ seen' = {}
              /\ UNCHANGED <<result, dwalk>>
         ELSE /\ wpc' = "fallback"
              /\ dwalk' = "notfound"
              /\ UNCHANGED <<st_, seen, result>>
    /\ UNCHANGED <<graph, cwalk>>
    /\ UNCHANGED evalVars
    /\ UNCHANGED sessVars

\* one test of the first while loop's condition and, when it holds, one
\* iteration of its body
DecompStep ==
    /\ wpc = "decomp"
    /\ IF ~LoopRuns(st_, seen)
         THEN /\ wpc' = "fallback"
              /\ dwalk' = "notfound"
              /\ UNCHANGED <<st_, seen, result>>
         ELSE /\ seen' = seen \cup {st_}
              /\ IF IsStorey(graph, st_)
                   THEN /\ wpc' = "done"
                        /\ result' = st_
                        /\ dwalk' = "found"
                        /\ UNCHANGED st_
                   ELSE IF graph.Decomposes[st_] = Raise
                   THEN /\ wpc' = "done"
                        /\ result' = Raise
                        /\ dwalk' = "raised"
                        /\ UNCHANGED st_
                   ELSE /\ st_' = graph.Decomposes[st_]
                        /\ UNCHANGED <<wpc, result, dwalk>>
    /\ UNCHANGED <<graph, cwalk>>
    /\ UNCHANGED evalVars
    /\ UNCHANGED sessVars

\* the function giving up after the decomposition loop
FallbackStart_NoRetry ==
    /\ wpc = "fallback"
    /\ wpc' = "done"
    /\ result' = None
    /\ cwalk' = "notfound"
    /\ UNCHANGED <<st_, seen, graph, dwalk>>
    /\ UNCHANGED evalVars
    /\ UNCHANGED sessVars

\* try: st_ = uel.get_container(space); seen = set() ... except Exception: pass
FallbackStart ==
    /\ wpc = "fallback"
    /\ IF graph.container = Raise
         THEN /\ wpc' = "done"
              /\ result' = None
              /\ cwalk' = "notfound"
              /\ UNCHANGED <<st_, seen>>
         ELSE /\ wpc' = "container"
              /\ st_' = graph.container
              /\ seen' = {}
              /\ UNCHANGED <<result, cwalk>>
    /\ UNCHANGED <<graph, dwalk>>
    /\ UNCHANGED evalVars
    /\ UNCHANGED sessVars

\* one test of the second while loop's condition and one iteration of its
\* body; an exception ends the try block and the function returns None
ContainerStep ==
    /\ wpc = "container"
    /\ IF ~LoopRuns(st_, seen)
         THEN /\ wpc' = "done"
              /\ result' = None
              /\ cwalk' = "notfound"
              /\ UNCHANGED <<st_, seen>>
         ELSE /\ seen' = seen \cup {st_}
              /\ IF IsStorey(graph, st_)
                   THEN /\ wpc' = "done"
                        /\ result' = st_
                        /\ cwalk' = "found"
                        /\ UNCHANGED st_
                   ELSE IF graph.Decomposes[st_] = Raise
                   THEN /\ wpc' = "done"
                        /\ result' = None
                        /\ cwalk' = "notfound"
                        /\ UNCHANGED st_
                   ELSE /\ st_' = graph.Decomposes[st_]
                        /\ UNCHANGED <<wpc, result, cwalk>>
    /\ UNCHANGED <<graph, dwalk>>
    /\ UNCHANGED evalVars
    /\ UNCHANGED sessVars

NoModel == [loaded |-> FALSE]

EvalIdle ==
    /\ ifc = NoModel
    /\ widgets = << >>
    /\ pc = "idle"
    /\ out = << >>

\* no upload session is modelled: the script runs with what it is given
SessIdle ==
    /\ script = "app_ch5"
    /\ up = None
    /\ ifc_name = None
    /\ opened = << >>
    /\ open_error = FALSE
    /\ reruns = 0

InitWalk ==
    /\ graph \in Graphs
    /\ wpc = "start"
    /\ st_ = None
    /\ seen = {}
    /\ result = None
    /\ dwalk = "pending"
    /\ cwalk = "pending"
    /\ EvalIdle
    /\ SessIdle

NextWalk == WalkStart \/ DecompStep \/ FallbackStart \/ ContainerStep

SpecWalk == InitWalk /\ [][NextWalk]_vars

\* the interpreter runs the call to its end
SpecWalkFair == SpecWalk /\ WF_vars(NextWalk)

\* ------------------------------------------ _detect_length_scale_meters

\* most entries of IfcUnitAssignment.Units
MaxUnits == 2

\* scales in ten-thousandths: 1.0, 0.001, 0.01, 0.1, 0.3048
ScaleOne == 10000
ScaleMilli == 10
ScaleCenti == 100
ScaleDeci == 1000
ScaleFoot == 3048

\* an attribute the entity does not have (getattr's default applies)
Absent == "<absent>"

UnitTypes == {"LENGTHUNIT", "AREAUNIT"}
UnitNames == {"METRE", "meters", "foot", "FEET", "INCH", Absent}
UnitPrefixes == {Absent, "UNIT", "MILLI", "centi", "DECI", "KILO"}

Units == [UnitType : UnitTypes, Name : UnitNames, Prefix : UnitPrefixes]

\* str.upper() on the strings above
Upper(s) ==
    CASE s = "meters" -> "METERS"
      [] s = "foot" -> "FOOT"
      [] s = "centi" -> "CENTI"
      [] OTHER -> s

\* str(t).upper().endswith("LENGTHUNIT")
IsLengthUnit(u) == Upper(u.UnitType) = "LENGTHUNIT"

\* nm = str(getattr(u, "Name", "METRE")).upper()
UnitNm(u) == IF u.Name = Absent THEN "METRE" ELSE Upper(u.Name)

\* pref = str(getattr(u, "Prefix", "") or "").upper()
UnitPref(u) == IF u.Prefix = Absent THEN "" ELSE Upper(u.Prefix)

\* the loop body with the DECI branch lost
UnitScale_NoDeci(u) ==
    IF ~IsLengthUnit(u) THEN 0
    ELSE IF UnitNm(u) \in {"METRE", "METRES", "METER", "METERS"}
              /\ UnitPref(u) \in {"", "UNIT", "MILLI", "CENTI"}
    THEN CASE UnitPref(u) \in {"", "UNIT"} -> ScaleOne
           [] UnitPref(u) = "MILLI" -> ScaleMilli
           [] UnitPref(u) = "CENTI" -> ScaleCenti
    ELSE IF UnitNm(u) \in {"FOOT", "FEET"} THEN ScaleFoot
    ELSE 0

\* the body of "for u in ua.Units": the value returned for u, 0 when the
\* body returns nothing and the loop goes on
UnitScale(u) ==
    IF ~IsLengthUnit(u) THEN 0
    ELSE IF UnitNm(u) \in {"METRE", "METRES", "METER", "METERS"}
              /\ UnitPref(u) \in {"", "UNIT", "MILLI", "CENTI", "DECI"}
    THEN CASE UnitPref(u) \in {"", "UNIT"} -> ScaleOne
           [] UnitPref(u) = "MILLI" -> ScaleMilli
           [] UnitPref(u) = "CENTI" -> ScaleCenti
           [] UnitPref(u) = "DECI" -> ScaleDeci
    ELSE IF UnitNm(u) \in {"FOOT", "FEET"} THEN ScaleFoot
    ELSE 0

\* for u in ua.Units: ...; return 1.0
RECURSIVE ScanUnits(_)
ScanUnits(us) ==
    IF us = << >> THEN ScaleOne
    ELSE IF UnitScale(Head(us)) # 0 THEN UnitScale(Head(us))
    ELSE ScanUnits(Tail(us))

\* ifc.by_type("IfcUnitAssignment") and the read of uas[0].Units: raises
\* (any exception inside the try), found (uas is not empty), Units
UnitSeqs == UNION {[1..n -> Units] : n \in 0..MaxUnits}
UnitQueries ==
    {[raises |-> TRUE, found |-> FALSE, Units |-> << >>],
     [raises |-> FALSE, found |-> FALSE, Units |-> << >>]}
    \cup [raises : {FALSE}, found : {TRUE}, Units : UnitSeqs]

\* _detect_length_scale_meters(ifc)
DetectLengthScaleMeters(m) ==
    IF m.uas.raises THEN ScaleOne
    ELSE IF ~m.uas.found THEN ScaleOne
    ELSE ScanUnits(m.uas.Units)

WalkIdle ==
    /\ graph = NoGraph
    /\ wpc = "idle"
    /\ st_ = None
    /\ seen = {}
    /\ result = None
    /\ dwalk = "pending"
    /\ cwalk = "pending"

\* scale_m = _detect_length_scale_meters(model)
DetectScale ==
    /\ pc = "units"
    /\ pc' = "done"
    /\ out' = [scale_m |-> DetectLengthScaleMeters(ifc)]
    /\ UNCHANGED <<ifc, widgets>>
    /\ UNCHANGED walkVars
    /\ UNCHANGED sessVars

InitUnits ==
    /\ ifc \in [loaded : {TRUE}, uas : UnitQueries]
    /\ widgets = << >>
    /\ pc = "units"
    /\ out = << >>
    /\ WalkIdle
    /\ SessIdle

NextUnits == DetectScale

SpecUnits == InitUnits /\ [][NextUnits]_vars

\* --------------------------------------------------------- area of a space

\* most IfcQuantityArea-like entries reachable from a space's IsDefinedBy
MaxQuantities == 2

\* Python's None where an area is expected (0 is an area)
AreaNone == -2

\* areas in thousandths of a square metre: 0.004, 10.496, 21.0, 41.0
AreaSamples == {4, 10496, 21000, 41000}

\* create_shape and the polygon union: the library is missing, create_shape
\* raises, the mesh has no triangle, the union raises, or the union has an
\* area (footprint, already scaled)
MeshStates == {"nogeom", "raises", "nopolys", "unionfails", "ok"}

\* an AreaValue or Area attribute: absent or None, a read or comparison that
\* raises, zero, or a positive value
AttrAreas == {AreaNone, Raise, 0} \cup AreaSamples

QuantitySeqs == UNION {[1..n -> AttrAreas] : n \in 0..MaxQuantities}

\* _space_geom_area_m2(ifc, space, scale_m)
SpaceGeomAreaM2(s) == IF s.mesh = "ok" THEN s.footprint ELSE AreaNone

\* the loops over IsDefinedBy and Quantities: the first strictly positive
\* AreaValue; an exception leaves the try block
RECURSIVE ScanQuantities(_)
ScanQuantities(qs) ==
    IF qs = << >> THEN AreaNone
    ELSE IF Head(qs) = Raise THEN AreaNone
    ELSE IF Head(qs) # AreaNone /\ Head(qs) > 0 THEN Head(qs)
    ELSE ScanQuantities(Tail(qs))

\* _fallback_space_area_m2(space)
FallbackSpaceAreaM2(s) ==
    IF ScanQuantities(s.quantities) # AreaNone THEN ScanQuantities(s.quantities)
    ELSE IF s.Area \notin {AreaNone, Raise} /\ s.Area > 0 THEN s.Area
    ELSE AreaNone

\* area_for_id preferring the attribute-based area
AreaForId_FallbackFirst(s) ==
    IF s.byid = "raises" THEN Raise
    ELSE IF FallbackSpaceAreaM2(s) # AreaNone THEN FallbackSpaceAreaM2(s)
    ELSE IF SpaceGeomAreaM2(s) # AreaNone /\ SpaceGeomAreaM2(s) > 0 THEN SpaceGeomAreaM2(s)
    ELSE AreaNone

\* area_for_id(space_id): s = model.by_id(space_id) is outside any try
AreaForId(s) ==
    IF s.byid = "raises" THEN Raise
    ELSE IF SpaceGeomAreaM2(s) # AreaNone /\ SpaceGeomAreaM2(s) > 0 THEN SpaceGeomAreaM2(s)
    ELSE FallbackSpaceAreaM2(s)

\* the inputs of area_for_id for one space
AreaInputs ==
    [byid : {"ok"}, mesh : MeshStates \ {"ok"}, footprint : {0},
     quantities : QuantitySeqs, Area : AttrAreas]
    \cup [byid : {"ok"}, mesh : {"ok"}, footprint : {0} \cup AreaSamples,
          quantities : QuantitySeqs, Area : AttrAreas]
    \cup [byid : {"raises"}, mesh : {"ok"}, footprint : {0, 21000},
          quantities : {<< >>}, Area : {AreaNone}]

\* a = area_for_id(s.id())
ResolveArea ==
    /\ pc = "area"
    /\ pc' = "done"
    /\ out' = [area |-> AreaForId(ifc.space)]
    /\ UNCHANGED <<ifc, widgets>>
    /\ UNCHANGED walkVars
    /\ UNCHANGED sessVars

InitArea ==
    /\ ifc \in [loaded : {TRUE}, space : AreaInputs]
    /\ widgets = << >>
    /\ pc = "area"
    /\ out = << >>
    /\ WalkIdle
    /\ SessIdle

NextArea == ResolveArea

SpecArea == InitArea /\ [][NextArea]_vars

\* ------------------------------------------------------ names and labels

\* str.strip() on the names used below
Strip(s) ==
    CASE s = " classroom " -> "classroom"
      [] s = " PARKING " -> "PARKING"
      [] s = " Level 1 " -> "Level 1"
      [] s = "  " -> ""
      [] OTHER -> s

\* str.lower() / str.casefold() on the names used below
Lower(s) ==
    CASE s = "Classroom" -> "classroom"
      [] s = "Classroom A" -> "classroom a"
      [] s = "Parking" -> "parking"
      [] s = "PARKING" -> "parking"
      [] s = "Storage" -> "storage"
      [] s = "Level 1" -> "level 1"
      [] s = "Level 2" -> "level 2"
      [] OTHER -> s

\* (x or ""): an absent or None attribute reads as the empty string
OrEmpty(x) == IF x = Absent THEN "" ELSE x

\* a or b on two optional strings
OrElse(a, b) == IF OrEmpty(a) # "" THEN a ELSE b

\* the graph _storey_of_space climbs from space s of model m
SpaceGraph(m, s) ==
    [Decomposes |-> m.hier.Decomposes, kind |-> m.hier.kind,
     sparent |-> s.sparent, container |-> s.container]

\* a storey label: the stripped name, or "Unnamed Storey (<GlobalId>)" with
\* the node standing for its GlobalId, or the "(No storey)" placeholder
NoStoreyLabel == [text |-> "(No storey)", gid |-> None]

\* _prefer_storey_name(sto)
PreferStoreyName(m, n) ==
    IF Strip(OrEmpty(OrElse(m.hier.LongName[n], m.hier.Name[n]))) # ""
    THEN [text |-> Strip(OrEmpty(OrElse(m.hier.LongName[n], m.hier.Name[n]))), gid |-> None]
    ELSE [text |-> "Unnamed Storey", gid |-> n]

\* _prefer_storey_name(sto) if sto else "(No storey)"
StoreyLabel(m, sto) == IF sto = None THEN NoStoreyLabel ELSE PreferStoreyName(m, sto)

\* ------------------------------------------------- render_parking_checker

\* spaces of a model handed to the parking evaluator, staff count offered
MaxParkSpaces == 3
MaxStaff == 7

\* SLOT_AREA = 21.0 in hundredths of a square metre; REQ_PER_STAFF = 1/3.0
\* as its denominator
SLOT_AREA == 2100
REQ_PER_STAFF_DEN == 3

\* _is_exact_parking(name)
IsExactParking(name) == Lower(Strip(OrEmpty(name))) = "parking"

\* _space_name(s)
SpaceName(s) ==
    IF Strip(OrEmpty(s.LongName)) # "" THEN Strip(OrEmpty(s.LongName))
    ELSE Strip(OrEmpty(s.Name))

\* round(a, 2): thousandths to hundredths, ties to even
Round2(a) ==
    IF a % 10 < 5 THEN a \div 10
    ELSE IF a % 10 > 5 THEN a \div 10 + 1
    ELSE IF (a \div 10) % 2 = 0 THEN a \div 10
    ELSE a \div 10 + 1

\* round(a, 2) if a else None
RowArea(a) == IF a = AreaNone \/ a = 0 THEN AreaNone ELSE Round2(a)

\* the row appended for parking space i
ParkingRow(m, i) ==
    [Name    |-> IF SpaceName(m.spaces[i]) # "" THEN SpaceName(m.spaces[i]) ELSE "parking",
     Storey  |-> StoreyLabel(m, StoreyOfSpace(SpaceGraph(m, m.spaces[i]))),
     Area    |-> RowArea(AreaForId(m.spaces[i])),
     id      |-> i]

\* for s in spaces: ... rows.append(...), from space i on: the rows, or
\* raised when area_for_id or _storey_of_space lets an exception out
RECURSIVE CollectParking(_, _)
CollectParking(m, i) ==
    IF i > Len(m.spaces) THEN [raised |-> FALSE, rows |-> << >>]
    ELSE IF ~(IsExactParking(m.spaces[i].LongName) \/ IsExactParking(m.spaces[i].Name))
    THEN CollectParking(m, i + 1)
    ELSE IF AreaForId(m.spaces[i]) = Raise THEN [raised |-> TRUE, rows |-> << >>]
    ELSE IF StoreyOfSpace(SpaceGraph(m, m.spaces[i])) = Raise THEN [raised |-> TRUE, rows |-> << >>]
    ELSE LET rest == CollectParking(m, i + 1)
         IN  IF rest.raised THEN rest
             ELSE [raised |-> FALSE, rows |-> <<ParkingRow(m, i)>> \o rest.rows]

\* sum(r["Area"] or 0.0 for r in rows), in hundredths
RECURSIVE TotalArea(_)
TotalArea(rows) ==
    IF rows = << >> THEN 0
    ELSE (IF Head(rows).Area = AreaNone THEN 0 ELSE Head(rows).Area) + TotalArea(Tail(rows))

\* slots_raw = total_area / SLOT_AREA if total_area > 0 else 0.0, as a fraction
SlotsRaw(total) == IF total > 0 THEN [num |-> total, den |-> SLOT_AREA] ELSE [num |-> 0, den |-> 1]

\* the usable whole slots rounded up
SlotsInt_RoundUp(total) ==
    (SlotsRaw(total).num + SlotsRaw(total).den - 1) \div SlotsRaw(total).den

\* int(math.floor(slots_raw))
SlotsInt(total) == SlotsRaw(total).num \div SlotsRaw(total).den

\* int(math.ceil(staff_count * REQ_PER_STAFF))
ReqSlots(staff) == (staff + REQ_PER_STAFF_DEN - 1) \div REQ_PER_STAFF_DEN

\* the test with > in place of >=
ParkingOk_Strict(total, req) == SlotsRaw(total).num > req * SlotsRaw(total).den

\* ok = slots_raw >= req_slots
ParkingOk(total, req) == SlotsRaw(total).num >= req * SlotsRaw(total).den

Max(a, b) == IF a >= b THEN a ELSE b

\* f"{slots_raw:.2f}": the fraction in hundredths, rounded to nearest
Fmt2(fr) == (fr.num * 200 + fr.den) \div (2 * fr.den)

\* short_slots = max(0, req_slots - slots_int)
ShortSlots(total, req) == Max(0, req - SlotsInt(total))

\* short_area = max(0.0, req_slots * SLOT_AREA - total_area)
ShortArea(total, req) == Max(0, req * SLOT_AREA - total)

\* st.success(...) / st.error(...): the figures the message shows
ParkingMessage(ok, total, req) ==
    IF ok
    THEN [verdict |-> "OK", req_slots |-> req, slots_raw |-> Fmt2(SlotsRaw(total)),
          slots_int |-> SlotsInt(total), total_area |-> total]
    ELSE [verdict |-> "Not OK", req_slots |-> req, slots_raw |-> Fmt2(SlotsRaw(total)),
          slots_int |-> SlotsInt(total),
          short_slots |-> Max(0, req - SlotsInt(total)),
          short_area |-> Max(0, req * SLOT_AREA - total)]

\* render_parking_checker(): status is "nomodel", "raised" (an exception left
\* the function), "nospaces" (st.error and return) or "verdict"
RenderParkingChecker(m, staff) ==
    IF ~m.loaded THEN [status |-> "nomodel"]
    ELSE IF m.spacesRaise THEN [status |-> "raised"]
    ELSE IF m.spaces = << >> THEN [status |-> "nospaces"]
    ELSE IF CollectParking(m, 1).raised THEN [status |-> "raised"]
    ELSE LET rows  == CollectParking(m, 1).rows
             total == TotalArea(rows)
             req   == ReqSlots(staff)
         IN  [status  |-> "verdict",
              scale_m |-> DetectLengthScaleMeters(m),
              rows    |-> rows,
              staff   |-> staff,
              short_slots |-> ShortSlots(total, req),
              short_area  |-> ShortArea(total, req),
              ok      |-> ParkingOk(total, req),
              message |-> ParkingMessage(ParkingOk(total, req), total, req)]

\* a space with no attribute set, no parent, no geometry and no area
PlainSpace ==
    [LongName |-> Absent, Name |-> Absent, ObjectType |-> Absent,
     PredefinedType |-> Absent, PsetLongName |-> Absent, PsetName |-> Absent,
     sparent |-> None, container |-> None, byid |-> "ok",
     mesh |-> "raises", footprint |-> 0, quantities |-> << >>, Area |-> AreaNone]

\* a hierarchy of one named storey (node 1) under which spaces may sit
OneStoreyHier ==
    [Decomposes |-> [n \in Nodes |-> None],
     kind       |-> [n \in Nodes |-> IF n = 1 THEN "storey" ELSE "other"],
     LongName   |-> [n \in Nodes |-> IF n = 1 THEN "Level 1" ELSE Absent],
     Name       |-> [n \in Nodes |-> Absent]]

\* a unit assignment in millimetres
MilliUnits ==
    [raises |-> FALSE, found |-> TRUE,
     Units |-> <<[UnitType |-> "LENGTHUNIT", Name |-> "METRE", Prefix |-> "MILLI"]>>]

\* the spaces the parking evaluator is run on: parking spaces with a meshed
\* footprint, with attribute areas only, with no area, with a failing by_id
\* or a failing parent read, and a space that is not a parking
ParkingSpaceSamples ==
    {[PlainSpace EXCEPT !.LongName = " PARKING ", !.mesh = "ok", !.footprint = a, !.sparent = 1]
        : a \in AreaSamples}
    \cup {[PlainSpace EXCEPT !.Name = "Parking", !.quantities = <<0, 10496>>],
          [PlainSpace EXCEPT !.LongName = "Parking", !.mesh = "ok", !.footprint = 0, !.Area = 21000],
          [PlainSpace EXCEPT !.LongName = "Parking"],
          [PlainSpace EXCEPT !.LongName = "Parking", !.byid = "raises"],
          [PlainSpace EXCEPT !.LongName = "Parking", !.Area = 21000, !.sparent = Raise],
          [PlainSpace EXCEPT !.LongName = "Storage", !.mesh = "ok", !.footprint = 21000]}

ParkingModels ==
    [loaded : {TRUE}, uas : {MilliUnits}, hier : {OneStoreyHier}, spacesRaise : {FALSE},
     spaces : UNION {[1..n -> ParkingSpaceSamples] : n \in 0..MaxParkSpaces}]
    \cup [loaded : {TRUE}, uas : {MilliUnits}, hier : {OneStoreyHier}, spacesRaise : {TRUE},
          spaces : {<< >>}]

\* what the tabs have rendered before any evaluator ran
NotRun == [status |-> "notrun"]
NothingRendered == [classes |-> NotRun, floors |-> NotRun, parking |-> NotRun]

\* where the script goes after an evaluator: an exception that leaves the
\* evaluator ends the script run
After(res, next) == IF res.status = "raised" THEN "crashed" ELSE next

\* with tabs[2]: render_parking_checker(); the staff count is read from its
\* widget
RunParking ==
    /\ pc = "parking"
    /\ \E staff \in 0..MaxStaff :
         /\ widgets' = [widgets EXCEPT !.staff_count = staff]
         /\ out' = [out EXCEPT !.parking = RenderParkingChecker(ifc, staff)]
         /\ pc' = After(RenderParkingChecker(ifc, staff), "done")
    /\ UNCHANGED ifc
    /\ UNCHANGED walkVars
    /\ UNCHANGED sessVars

\* the widgets' default values: index=0, max_allowed_default, default_staff
DefaultWidgets == [school |-> "1", max_allowed |-> 3, staff_count |-> 9]

InitParking ==
    /\ ifc \in ParkingModels
    /\ widgets = DefaultWidgets
    /\ pc = "parking"
    /\ out = NothingRendered
    /\ WalkIdle
    /\ SessIdle

NextParking == RunParking

SpecParking == InitParking /\ [][NextParking]_vars

\* ------------------------------------------- render_class_count_checker

\* spaces of a model handed to the classroom counter
MaxClassSpaces == 10

FIXED_ROOM_TERM == "classroom"

SCHOOL_TYPES ==
    [k \in {"1", "2", "3"} |->
        CASE k = "1" -> [label |-> "first 3-year school", valid_counts |-> <<6, 9, 12, 15>>]
          [] k = "2" -> [label |-> "second 3-year school", valid_counts |-> <<6, 9, 12, 15>>]
          [] k = "3" -> [label |-> "mixed type", valid_counts |-> <<6, 12, 18>>]]

\* _norm(s) == term for a string field; fields that are not strings are
\* left out
NormIsTerm(v) == v # Absent /\ Lower(Strip(v)) = Lower(FIXED_ROOM_TERM)

\* _get_pset_value(space, key): the value when it is a non-blank string
PsetValue(v) == IF v # Absent /\ Strip(v) # "" THEN v ELSE Absent

\* _space_is_classroom looking at LongName only
SpaceIsClassroom_LongNameOnly(sp) == NormIsTerm(sp.LongName)

\* _space_is_classroom(space)
SpaceIsClassroom(sp) ==
    \/ NormIsTerm(sp.LongName)
    \/ NormIsTerm(sp.Name)
    \/ NormIsTerm(sp.ObjectType)
    \/ NormIsTerm(sp.PredefinedType)
    \/ NormIsTerm(PsetValue(sp.PsetLongName))
    \/ NormIsTerm(PsetValue(sp.PsetName))

\* sum(1 for s in spaces if _space_is_classroom(s))
RECURSIVE CountTrue(_)
CountTrue(sps) ==
    IF sps = << >> THEN 0
    ELSE (IF SpaceIsClassroom(Head(sps)) THEN 1 ELSE 0) + CountTrue(Tail(sps))

\* _count_classrooms(ifc_file): a failing by_type leaves spaces = []
CountClassrooms(m) == IF m.spacesRaise THEN 0 ELSE CountTrue(m.spaces)

\* the membership test comparing with the first permitted count only
InList_First(x, l) == l # << >> /\ l[1] = x

\* count in standards
InList(x, l) == \E i \in DOMAIN l : l[i] = x

\* render_class_count_checker()
RenderClassCountChecker(m, sel) ==
    IF ~m.loaded THEN [status |-> "nomodel"]
    ELSE LET count     == CountClassrooms(m)
             standards == SCHOOL_TYPES[sel].valid_counts
         IN  [status |-> "verdict",
              count  |-> count,
              ok     |-> InList(count, standards),
              message |->
                  IF InList(count, standards)
                  THEN [verdict |-> "ok", count |-> count, label |-> SCHOOL_TYPES[sel].label]
                  ELSE [verdict |-> "not ok", count |-> count, label |-> SCHOOL_TYPES[sel].label,
                        standards |-> standards]]

\* with tabs[0]: render_class_count_checker(); the school type is read from
\* its selectbox
RunClasses ==
    /\ pc = "classes"
    /\ \E sel \in DOMAIN SCHOOL_TYPES :
         /\ widgets' = [widgets EXCEPT !.school = sel]
         /\ out' = [out EXCEPT !.classes = RenderClassCountChecker(ifc, sel)]
         /\ pc' = After(RenderClassCountChecker(ifc, sel), "floors")
    /\ UNCHANGED ifc
    /\ UNCHANGED walkVars
    /\ UNCHANGED sessVars

\* the spaces the classroom counter is run on: a classroom by LongName, a
\* classroom by ObjectType, and a space whose name only contains the word
ClassSpaceSamples ==
    {[PlainSpace EXCEPT !.LongName = "Classroom", !.Name = "101"],
     [PlainSpace EXCEPT !.LongName = "Storage", !.ObjectType = " classroom ", !.PsetLongName = "  "],
     [PlainSpace EXCEPT !.LongName = "Classroom A", !.PsetName = "Storage"]}

ClassModels ==
    [loaded : {TRUE}, uas : {MilliUnits}, hier : {OneStoreyHier}, spacesRaise : {FALSE},
     spaces : UNION {[1..n -> ClassSpaceSamples] : n \in 0..MaxClassSpaces}]
    \cup [loaded : {TRUE}, uas : {MilliUnits}, hier : {OneStoreyHier}, spacesRaise : {TRUE},
          spaces : {<< >>}]

InitClass ==
    /\ ifc \in ClassModels
    /\ widgets = DefaultWidgets
    /\ pc = "classes"
    /\ out = NothingRendered
    /\ WalkIdle
    /\ SessIdle

NextClass == RunClasses

SpecClass == InitClass /\ [][NextClass]_vars

\* ----------------------------------------- render_floors_with_classrooms

\* spaces of a model handed to the floors evaluator, largest limit offered
MaxFloorSpaces == 3
MaxAllowed == 3

\* _prefer_longname(space)
PreferLongname(sp) == Strip(OrEmpty(OrElse(sp.LongName, sp.Name)))

\* "classroom" in _norm(longname)
ContainsClassroom(sp) == Lower(Strip(PreferLongname(sp))) \in {"classroom", "classroom a"}

\* the record appended for classroom space i
FloorRecord(m, i) ==
    [Name   |-> PreferLongname(m.spaces[i]),
     Storey |-> StoreyLabel(m, StoreyOfSpace(SpaceGraph(m, m.spaces[i]))),
     id     |-> i]

\* for sp in spaces_all: ..., from space i on: the records, or raised when
\* _storey_of_space lets an exception out
RECURSIVE CollectClassrooms(_, _)
CollectClassrooms(m, i) ==
    IF i > Len(m.spaces) THEN [raised |-> FALSE, records |-> << >>]
    ELSE IF ~ContainsClassroom(m.spaces[i]) THEN CollectClassrooms(m, i + 1)
    ELSE IF StoreyOfSpace(SpaceGraph(m, m.spaces[i])) = Raise
    THEN [raised |-> TRUE, records |-> << >>]
    ELSE LET rest == CollectClassrooms(m, i + 1)
         IN  IF rest.raised THEN rest
             ELSE [raised |-> FALSE, records |-> <<FloorRecord(m, i)>> \o rest.records]

\* storey_names: every stname added, the "(No storey)" placeholder included
StoreyNames(records) == {records[i].Storey : i \in DOMAIN records}

\* render_floors_with_classrooms(): status is "nomodel", "aborted" (by_type
\* failed: st.error and return), "raised" or "verdict"
RenderFloorsWithClassrooms(m, max_allowed) ==
    IF ~m.loaded THEN [status |-> "nomodel"]
    ELSE IF m.spacesRaise THEN [status |-> "aborted"]
    ELSE IF CollectClassrooms(m, 1).raised THEN [status |-> "raised"]
    ELSE LET records == CollectClassrooms(m, 1).records
             levels  == StoreyNames(records)
             count_levels == Cardinality(levels)
         IN  [status  |-> "verdict",
              records |-> records,
              levels  |-> levels,
              ok      |-> count_levels <= max_allowed,
              message |->
                  IF count_levels <= max_allowed
                  THEN [verdict |-> "standard", count_levels |-> count_levels, max |-> max_allowed]
                  ELSE [verdict |-> "exceeds", count_levels |-> count_levels, max |-> max_allowed,
                        excess |-> count_levels - max_allowed]]

\* with tabs[1]: render_floors_with_classrooms(); the limit is read from its
\* number input
RunFloors ==
    /\ pc = "floors"
    /\ \E mx \in 0..MaxAllowed :
         /\ widgets' = [widgets EXCEPT !.max_allowed = mx]
         /\ out' = [out EXCEPT !.floors = RenderFloorsWithClassrooms(ifc, mx)]
         /\ pc' = After(RenderFloorsWithClassrooms(ifc, mx), "parking")
    /\ UNCHANGED ifc
    /\ UNCHANGED walkVars
    /\ UNCHANGED sessVars

\* hierarchies for the floors evaluator: storeys with distinct names (those
\* past the second are unnamed), storeys sharing one name up to blanks, and
\* a storey reached through an intermediate node
FloorHiers ==
    {[Decomposes |-> [n \in Nodes |-> None],
      kind       |-> [n \in Nodes |-> "storey"],
      LongName   |-> [n \in Nodes |-> IF n = 1 THEN "Level 1" ELSE Absent],
      Name       |-> [n \in Nodes |-> IF n = 2 THEN "Level 2" ELSE Absent]],
     [Decomposes |-> [n \in Nodes |-> None],
      kind       |-> [n \in Nodes |-> "storey"],
      LongName   |-> [n \in Nodes |-> IF n = 1 THEN "Level 1" ELSE " Level 1 "],
      Name       |-> [n \in Nodes |-> Absent]],
     [Decomposes |-> [n \in Nodes |-> IF n = 1 THEN 2 ELSE None],
      kind       |-> [n \in Nodes |-> IF n = 1 THEN "other" ELSE "storey"],
      LongName   |-> [n \in Nodes |-> IF n = 2 THEN "Level 2" ELSE Absent],
      Name       |-> [n \in Nodes |-> Absent]]}

\* the spaces the floors evaluator is run on: rooms whose name contains
\* "classroom" and one that does not, under each node or under none; a
\* classroom named by Name and placed by its container; a classroom whose
\* Decomposes read fails
FloorSpaceSamples ==
    {[PlainSpace EXCEPT !.LongName = nm, !.sparent = p] :
        nm \in {"Classroom A", " classroom ", "Storage"}, p \in Nodes \cup {None}}
    \cup {[PlainSpace EXCEPT !.Name = "Classroom", !.container = 1],
          [PlainSpace EXCEPT !.LongName = "Classroom", !.sparent = Raise]}

FloorModels ==
    [loaded : {TRUE}, uas : {MilliUnits}, hier : FloorHiers, spacesRaise : {FALSE},
     spaces : UNION {[1..n -> FloorSpaceSamples] : n \in 0..MaxFloorSpaces}]
    \cup [loaded : {TRUE}, uas : {MilliUnits}, hier : {OneStoreyHier}, spacesRaise : {TRUE},
          spaces : {<< >>}]

InitFloors ==
    /\ ifc \in FloorModels
    /\ widgets = DefaultWidgets
    /\ pc = "floors"
    /\ out = NothingRendered
    /\ WalkIdle
    /\ SessIdle

NextFloors == RunFloors

SpecFloors == InitFloors /\ [][NextFloors]_vars

\* --------------------------------------------------------- app_ch5: tabs

\* spaces of a model run through the three tabs
MaxAppSpaces == 2

\* the spaces the three tabs are run on: a classroom on a storey, a classroom
\* whose Decomposes read fails, a parking with a meshed footprint, a parking
\* whose mesh and quantity reads fail, a parking whose by_id fails
AppSpaceSamples ==
    {[PlainSpace EXCEPT !.LongName = "Classroom", !.sparent = 1],
     [PlainSpace EXCEPT !.LongName = "Classroom", !.sparent = Raise],
     [PlainSpace EXCEPT !.LongName = "Parking", !.mesh = "ok", !.footprint = 41000, !.sparent = 1],
     [PlainSpace EXCEPT !.LongName = "Parking", !.mesh = "raises", !.quantities = <<Raise>>,
                        !.Area = 21000, !.container = Raise],
     [PlainSpace EXCEPT !.LongName = "Parking", !.byid = "raises"]}

AppModels ==
    [loaded : {TRUE}, uas : {MilliUnits}, hier : {OneStoreyHier}, spacesRaise : {FALSE},
     spaces : UNION {[1..n -> AppSpaceSamples] : n \in 0..MaxAppSpaces}]
    \cup [loaded : {TRUE}, uas : {MilliUnits}, hier : {OneStoreyHier}, spacesRaise : {TRUE},
          spaces : {<< >>}]

\* the script from the tabs on, with a model in the session
Init ==
    /\ ifc \in AppModels
    /\ widgets = DefaultWidgets
    /\ pc = "classes"
    /\ out = NothingRendered
    /\ WalkIdle
    /\ SessIdle

Next == RunClasses \/ RunFloors \/ RunParking

Spec == Init /\ [][Next]_vars

\* ------------------------------------------- uploads and script reruns

\* files the user has at hand, and script runs in one session
MaxFiles == 2
MaxReruns == 3

Files == 1..MaxFiles

\* app_ch5.py, or one of the checkers run on its own (run_standalone)
Scripts == {"app_ch5", "floors_checker", "parking_checker"}

\* what ifcopenshell.open yields for file f when it succeeds: the files hold
\* different models
ModelOf(f) ==
    [loaded |-> TRUE, uas |-> MilliUnits, hier |-> OneStoreyHier, spacesRaise |-> FALSE,
     spaces |-> [i \in 1..f |-> [PlainSpace EXCEPT !.LongName = "Classroom", !.sparent = 1]]]

\* a new script run begins: the page is rendered afresh, session_state stays
StartRun ==
    /\ reruns < MaxReruns
    /\ reruns' = reruns + 1
    /\ pc' = "open"
    /\ out' = NothingRendered
    /\ open_error' = FALSE
    /\ UNCHANGED <<ifc, ifc_name, opened, widgets, script>>
    /\ UNCHANGED walkVars

\* the user puts a file into the sidebar uploader; the standalone scripts
\* draw their uploader only while the session has no model
UserUploads ==
    /\ script = "app_ch5" \/ ifc = NoModel
    /\ \E f \in Files : f # up /\ up' = f
    /\ StartRun

\* the user removes the file from the uploader
UserClears ==
    /\ up # None
    /\ up' = None
    /\ StartRun

\* any other interaction reruns the script
UserReruns ==
    /\ UNCHANGED up
    /\ StartRun

\* the open guard that opens whatever the uploader holds on every run
NeedsOpen_Always == up # None

\* if ("ifc" not in st.session_state) and (up_global is not None)
NeedsOpen == ifc = NoModel /\ up # None

\* app_ch5.py from the open guard to the hard guard: open once and cache in
\* session_state; st.stop() while there is no model
OpenGlobal ==
    /\ pc = "open"
    /\ script = "app_ch5"
    /\ IF NeedsOpen
         THEN \E ok \in BOOLEAN :
                IF ok
                THEN /\ ifc' = ModelOf(up)
                     /\ ifc_name' = up
                     /\ opened' = Append(opened, up)
                     /\ UNCHANGED open_error
                ELSE /\ open_error' = TRUE
                     /\ UNCHANGED <<ifc, ifc_name, opened>>
         ELSE UNCHANGED <<ifc, ifc_name, opened, open_error>>
    /\ pc' = IF ifc' = NoModel THEN "stopped" ELSE "classes"
    /\ UNCHANGED <<widgets, out, script, up, reruns>>
    /\ UNCHANGED walkVars

\* ensure_ifc_from_sidebar / _ensure_ifc_from_sidebar
EnsureIfcFromSidebar ==
    /\ pc = "open"
    /\ script # "app_ch5"
    /\ IF ifc # NoModel
         THEN /\ pc' = "standalone"
              /\ UNCHANGED <<ifc, ifc_name, opened, open_error>>
         ELSE IF up = None
         THEN /\ pc' = "stopped"
              /\ UNCHANGED <<ifc, ifc_name, opened, open_error>>
         ELSE \E ok \in BOOLEAN :
                IF ok
                THEN /\ ifc' = ModelOf(up)
                     /\ ifc_name' = up
                     /\ opened' = Append(opened, up)
                     /\ pc' = "standalone"
                     /\ UNCHANGED open_error
                ELSE /\ open_error' = TRUE
                     /\ pc' = "stopped"
                     /\ UNCHANGED <<ifc, ifc_name, opened>>
    /\ UNCHANGED <<widgets, out, script, up, reruns>>
    /\ UNCHANGED walkVars

\* run_standalone / _run_standalone after the model is ensured: the one
\* evaluator of the script
RunStandalone ==
    /\ pc = "standalone"
    /\ IF script = "floors_checker"
         THEN \E mx \in 0..MaxAllowed :
                /\ widgets' = [widgets EXCEPT !.max_allowed = mx]
                /\ out' = [out EXCEPT !.floors = RenderFloorsWithClassrooms(ifc, mx)]
                /\ pc' = After(RenderFloorsWithClassrooms(ifc, mx), "done")
         ELSE \E staff \in 0..MaxStaff :
                /\ widgets' = [widgets EXCEPT !.staff_count = staff]
                /\ out' = [out EXCEPT !.parking = RenderParkingChecker(ifc, staff)]
                /\ pc' = After(RenderParkingChecker(ifc, staff), "done")
    /\ UNCHANGED ifc
    /\ UNCHANGED walkVars
    /\ UNCHANGED sessVars

\* a fresh browser session on one of the scripts
InitSession ==
    /\ script \in Scripts
    /\ up = None
    /\ ifc = NoModel
    /\ ifc_name = None
    /\ opened = << >>
    /\ open_error = FALSE
    /\ reruns = 0
    /\ widgets = DefaultWidgets
    /\ pc = "open"
    /\ out = NothingRendered
    /\ WalkIdle

NextSession ==
    \/ UserUploads
    \/ UserClears
    \/ UserReruns
    \/ OpenGlobal
    \/ EnsureIfcFromSidebar
    \/ RunStandalone
    \/ RunClasses
    \/ RunFloors
    \/ RunParking

SpecSession == InitSession /\ [][NextSession]_vars

\* ------------------------------------------------ claims: storey resolver

\* the step-by-step call and the one-call operator agree (the evaluators use
\* the operator)
WalkAgrees == wpc = "done" => result = StoreyOfSpace(graph)

\* the node i decomposition edges above start; None and Raise absorb
RECURSIVE Hop(_, _, _)
Hop(g, start, i) ==
    IF i = 0 THEN start
    ELSE LET p == Hop(g, start, i - 1)
         IN  IF p \in Nodes THEN g.Decomposes[p] ELSE p

Hops == 0..Cardinality(Nodes)

StoreyHops(g, start) == {i \in Hops : Hop(g, start, i) \in Nodes /\ IsStorey(g, Hop(g, start, i))}
RaiseHops(g, start) == {i \in Hops : Hop(g, start, i) = Raise}
Least(S) == CHOOSE i \in S : \A j \in S : i <= j

\* the first storey met from start along decomposition edges, Raise when an
\* edge read fails before one is met, None when there is neither
FirstStorey(g, start) ==
    LET ss == StoreyHops(g, start)
        rs == RaiseHops(g, start)
    IN  IF ss # {} /\ (rs = {} \/ Least(ss) < Least(rs)) THEN Hop(g, start, Least(ss))
        ELSE IF rs # {} THEN Raise
        ELSE None

\* what the call produces: the first storey above the space's decomposition
\* parent; else the first storey at or above the space's container, climbing
\* decomposition edges from it; a failed read propagates from the first
\* walk and is swallowed in the second
StoreyExpected(g) ==
    LET d == FirstStorey(g, g.sparent)
        c == FirstStorey(g, g.container)
    IN  IF d # None THEN d
        ELSE IF c \in Nodes THEN c
        ELSE None

\* no read of the graph fails
NoFailure(g) ==
    /\ g.sparent # Raise
    /\ g.container # Raise
    /\ \A n \in Nodes : g.Decomposes[n] # Raise /\ g.kind[n] # "raises"

\* the containment edge of a node; the modelled graphs carry one on the
\* space only
Contained(g, n) == None

\* the first storey met from the space along containment edges only
FirstContainingStorey(g) ==
    IF g.container \in Nodes /\ IsStorey(g, g.container) THEN g.container
    ELSE IF g.container \in Nodes THEN Contained(g, g.container)
    ELSE None

\* C1 (as amended): the call returns the first storey met along decomposition
\* edges from the space; when that walk meets none, the first storey met from
\* the space's container climbing DECOMPOSITION edges from the container;
\* "no storey" only when neither walk meets one.  A failed edge read in the
\* first walk propagates; in the second walk it ends the walk.
C1_StoreyOfSpace == wpc = "done" => result = StoreyExpected(graph)

\* C1 witness: the decomposition walk met no storey and the second walk found
\* one above the container
C1_Witness ==
    /\ wpc = "done"
    /\ dwalk = "notfound"
    /\ cwalk = "found"
    /\ result \in Nodes
    /\ result # graph.container

\* C1 (as claimed): on a graph whose reads all succeed, the second walk follows
\* containment edges only
C1_Original ==
    (wpc = "done" /\ NoFailure(graph)) =>
        result = (IF FirstStorey(graph, graph.sparent) # None
                    THEN FirstStorey(graph, graph.sparent)
                    ELSE FirstContainingStorey(graph))

\* the decomposition chain above the space never ends and holds no storey,
\* and no storey is met from the container either
CycleWithoutStorey(g) ==
    /\ g.sparent \in Nodes
    /\ \A i \in Hops : Hop(g, g.sparent, i) \in Nodes /\ ~IsStorey(g, Hop(g, g.sparent, i))
    /\ FirstStorey(g, g.container) \notin Nodes

\* C2: on every graph, cycles included, the call terminates; when the
\* decomposition chain is a cycle without a storey and the container leads to
\* none, both walks end "not found" and the call returns "no storey"
C2_CyclicWalkTerminates ==
    /\ <>(wpc = "done")
    /\ [](wpc = "done" /\ CycleWithoutStorey(graph) =>
            dwalk = "notfound" /\ cwalk = "notfound" /\ result = None)

\* C2 witness: a call on a cyclic chain ended, a node having been revisited
C2_Witness ==
    /\ wpc = "done"
    /\ CycleWithoutStorey(graph)
    /\ graph.container \in Nodes
    /\ result = None

\* the parent edges form no cycle: no node is reached again from itself
Acyclic(g) == \A n \in Nodes : \A i \in 1..MaxNodes : Hop(g, n, i) # n

\* C11: a walk is cut by a depth cap that does not depend on the visited set:
\* on an acyclic chain of any length the nodes a walk visits stay within the
\* cap, so some cap below the longest chain bounds every walk on such graphs
C11_DepthCap ==
    (Acyclic(graph) /\ NoFailure(graph)) => \E cap \in 0..(MaxNodes - 1) : Cardinality(seen) <= cap

\* ------------------------------------------------- claims: unit scale

\* the combinations the resolver knows, with the scale of each
Recognised(u) ==
    \/ UnitNm(u) \in {"METRE", "METRES", "METER", "METERS"}
         /\ UnitPref(u) \in {"", "UNIT", "MILLI", "CENTI", "DECI"}
    \/ UnitNm(u) \in {"FOOT", "FEET"}

TableScale(u) ==
    IF UnitNm(u) \in {"FOOT", "FEET"} THEN 3048
    ELSE IF UnitPref(u) = "MILLI" THEN 10
    ELSE IF UnitPref(u) = "CENTI" THEN 100
    ELSE IF UnitPref(u) = "DECI" THEN 1000
    ELSE 10000

RecognisedAt(us) == {i \in DOMAIN us : IsLengthUnit(us[i]) /\ Recognised(us[i])}
LengthAt(us) == {i \in DOMAIN us : IsLengthUnit(us[i])}

ClaimedScale(u) ==
    IF UnitNm(u) \in {"METRE", "METRES", "METER", "METERS"} /\ UnitPref(u) \in {"", "UNIT"} THEN 10000
    ELSE IF UnitNm(u) \in {"METRE", "METRES", "METER", "METERS"} /\ UnitPref(u) = "MILLI" THEN 10
    ELSE IF UnitNm(u) \in {"METRE", "METRES", "METER", "METERS"} /\ UnitPref(u) = "CENTI" THEN 100
    ELSE IF UnitNm(u) \in {"METRE", "METRES", "METER", "METERS"} /\ UnitPref(u) = "DECI" THEN 1000
    ELSE IF UnitNm(u) \in {"FOOT", "FEET"} /\ UnitPref(u) = "" THEN 3048
    ELSE 10000

GeomYields(s) == s.mesh = "ok"

\* positions of the strictly positive AreaValues read before any failing read
PositiveAt(qs) ==
    {i \in DOMAIN qs : qs[i] \notin {AreaNone, Raise} /\ qs[i] > 0
                        /\ \A j \in 1..(i - 1) : qs[j] # Raise}

\* the attribute-based area: the first strictly positive quantity, else a
\* strictly positive Area attribute
AttrBased(s) ==
    IF PositiveAt(s.quantities) # {} THEN s.quantities[Least(PositiveAt(s.quantities))]
    ELSE IF s.Area \notin {AreaNone, Raise, 0} THEN s.Area
    ELSE AreaNone

ParkingAt(m) ==
    {i \in DOMAIN m.spaces :
        IsExactParking(m.spaces[i].LongName) \/ IsExactParking(m.spaces[i].Name)}

\* the sum of f over a finite set of positions
RECURSIVE SumOver(_, _)
SumOver(S, f) ==
    IF S = {} THEN 0
    ELSE LET i == CHOOSE x \in S : TRUE
         IN  f[i] + SumOver(S \ {i}, f)

\* the sum, in thousandths, of the areas areaOf gives the parking spaces,
\* Unknown counted as 0
TrueTotalMilli(m) ==
    SumOver(ParkingAt(m),
            [i \in DOMAIN m.spaces |->
                IF AreaForId(m.spaces[i]) \in {AreaNone, Raise} THEN 0
                ELSE AreaForId(m.spaces[i])])

\* the total of the areas held by the rows, in hundredths
RowsTotalCenti(rows) ==
    SumOver(DOMAIN rows, [i \in DOMAIN rows |-> IF rows[i].Area = AreaNone THEN 0 ELSE rows[i].Area])

\* ceiling(staffCount * 1/3)
CeilThird(n) == CHOOSE k \in 0..n : 3 * k >= n /\ 3 * (k - 1) < n

\* C3: the rule passes iff totalArea / 21.0 >= ceiling(staffCount / 3), with
\* totalArea the sum of the parking spaces' areas, Unknown counted as 0
C3_ParkingPassIff ==
    out.parking.status = "verdict" =>
        (out.parking.ok <=> TrueTotalMilli(ifc) >= CeilThird(widgets.staff_count) * 21000)

ClassroomsAt(m) ==
    IF m.spacesRaise THEN {}
    ELSE {i \in DOMAIN m.spaces : SpaceIsClassroom(m.spaces[i])}

\* the permitted counts of a school type, as a set
Permitted(sel) == {SCHOOL_TYPES[sel].valid_counts[i] : i \in DOMAIN SCHOOL_TYPES[sel].valid_counts}

\* C7: the rule passes iff the number of spaces classified as classroom is in
\* the permitted-count set of the selected school type; on failure the full
\* permitted set is reported
C7_ClassCount ==
    out.classes.status = "verdict" =>
        /\ out.classes.ok <=> Cardinality(ClassroomsAt(ifc)) \in Permitted(widgets.school)
        /\ out.classes.message.verdict = (IF out.classes.ok THEN "ok" ELSE "not ok")
        /\ out.classes.message.count = Cardinality(ClassroomsAt(ifc))
        /\ ~out.classes.ok =>
              /\ "standards" \in DOMAIN out.classes.message
              /\ out.classes.message.standards = SCHOOL_TYPES[widgets.school].valid_counts

\* C7 witness: nine classrooms among ten spaces fail for the mixed type, and
\* the set {6, 12, 18} is reported
C7_Witness ==
    /\ out.classes.status = "verdict"
    /\ widgets.school = "3"
    /\ ~out.classes.ok
    /\ out.classes.count = 9
    /\ Len(ifc.spaces) = 10
    /\ out.classes.message.standards = <<6, 12, 18>>

\* ------------------------------------------------------- claims: floors

\* the classroom spaces of the floors rule, by position
FloorClassroomsAt(m) == {i \in DOMAIN m.spaces : ContainsClassroom(m.spaces[i])}

\* the distinct names of the storeys storeyOf resolves for the classrooms
ResolvedStoreyNames(m) ==
    {PreferStoreyName(m, StoreyOfSpace(SpaceGraph(m, m.spaces[i]))) :
        i \in {j \in FloorClassroomsAt(m) : StoreyOfSpace(SpaceGraph(m, m.spaces[j])) \in Nodes}}

\* C4: the rule passes iff the number of distinct storey names among the
\* classroom records is <= maxAllowed, and on failure the reported excess is
\* that number minus maxAllowed
C4_FloorDistribution ==
    out.floors.status = "verdict" =>
        /\ out.floors.ok <=> Cardinality(ResolvedStoreyNames(ifc)) <= widgets.max_allowed
        /\ ~out.floors.ok =>
              out.floors.message.excess = Cardinality(ResolvedStoreyNames(ifc)) - widgets.max_allowed

\* ------------------------------------------------- claims: error handling

Rules == {"classes", "floors", "parking"}

\* C9: in each of the three evaluators a failing type enumeration is treated
\* as an empty result set and the evaluation goes on to a verdict
C9_EnumerationFailure ==
    \A r \in Rules :
        (ifc.spacesRaise /\ out[r].status # "notrun") => out[r].status = "verdict"

\* C10: a failure while one space is processed prevents neither the remaining
\* spaces of the rule nor the rules after it from being processed: once the
\* script has ended, every rule has reached its verdict over all its spaces
C10_FailureScope ==
    (pc \in {"done", "crashed"} /\ ~ifc.spacesRaise /\ ifc.spaces # << >>) =>
        /\ out.classes.status = "verdict"
        /\ out.floors.status = "verdict"
        /\ Len(out.floors.records) = Cardinality(FloorClassroomsAt(ifc))
        /\ out.parking.status = "verdict"
        /\ Len(out.parking.rows) = Cardinality(ParkingAt(ifc))

\* ------------------------------------------------ claims: session model

\* positions of the script at which a rule evaluator is about to run
EvaluatorPositions == {"classes", "floors", "parking", "standalone"}

\* C12: in one session the model held is the first file opened successfully
\* (no second open ever happens, a later upload of another file does not
\* replace it), a failed open leaves the session without a model, and while
\* the session has no model no rule evaluator runs
C12_SessionModel ==
    /\ [](/\ Len(opened) <= 1
          /\ ifc = (IF opened = << >> THEN NoModel ELSE ModelOf(opened[1]))
          /\ ifc_name = (IF opened = << >> THEN None ELSE opened[1])
          /\ open_error => ifc = NoModel /\ pc = "stopped"
          /\ ifc = NoModel => pc \notin EvaluatorPositions /\ out = NothingRendered)
    /\ [][ifc # NoModel => ifc' = ifc]_vars

\* C12 witness: the first file was opened, another file was uploaded later,
\* and the evaluators ran to the end on the first file's model
C12_Witness ==
    /\ script = "app_ch5"
    /\ opened = <<1>>
    /\ up = 2
    /\ ifc = ModelOf(1)
    /\ pc = "done"
    /\ out.classes.status = "verdict"
    /\ out.classes.count = 1

\* ------------------------------------------- claims: verdict and shortfalls

\* C13: in every parking evaluation the verdict and the computed diagnostics
\* agree: it passes iff shortfallSlots = 0 iff shortfallArea = 0, and when it
\* fails shortfallSlots >= 1 and shortfallArea > 0
C13_VerdictAgrees ==
    out.parking.status = "verdict" =>
        /\ out.parking.ok <=> out.parking.short_slots = 0
        /\ out.parking.ok <=> out.parking.short_area = 0
        /\ ~out.parking.ok => out.parking.short_slots >= 1 /\ out.parking.short_area > 0

\* C13 witness: a pass at the boundary, total area 21.0 for one required
\* slot, with both shortfalls 0
C13_Witness ==
    /\ out.parking.status = "verdict"
    /\ out.parking.ok
    /\ RowsTotalCenti(out.parking.rows) = 2100
    /\ widgets.staff_count = 3
    /\ out.parking.short_slots = 0
    /\ out.parking.short_area = 0

====
